---- MODULE Spec2Model ----
(***************************************************************************)
(* The four command-line scripts of AI-Paper-Analyzer as one state machine *)
(* per invocation: text_extractor.py, topic_analyzer.py,                   *)
(* openai_analyzer.py and style_transfer.py.                               *)
(*                                                                         *)
(* A state is one invocation in progress: the command line and the files   *)
(* it names (chosen in Init), the file system, the position in the script  *)
(* (pc) and the values the script holds.  An environment failure (a        *)
(* corrupt document, a disk error, a failed network call) is a             *)
(* nondeterministic outcome of the step that can suffer it; `fault`        *)
(* records that one happened.  print() is taken never to fail.             *)
(*                                                                         *)
(* Paths are sequences of tokens, so that os.path.dirname and              *)
(* str.replace('.txt', ...) are computed, not assumed.                     *)
(***************************************************************************)
EXTENDS Integers, Sequences, FiniteSets, TLC

VARIABLES
    script,          \* which program runs
    nargs,           \* len(sys.argv) - 1
    inExists,        \* os.path.exists(input_path)
    inExt,           \* extension (and format) of the input file
    inBody,          \* "blank": no non-whitespace content, "content" otherwise
    outPath,         \* output_path, a token sequence
    topicsArg,       \* what the predefined-topics argument names
    apiKey,          \* OPENAI_API_KEY is set
    installWorks,    \* pip3 install makes the library importable
    libOk,           \* the parsing library is importable now
    files0,          \* the file system when the invocation started
    files,           \* path -> content
    dirs,            \* directories that exist (besides the working directory)
    pc,              \* position in the script
    caller,          \* who called analyze_paper: "main" or the call site in analyze_paper_openai
    apArgs,          \* the arguments analyze_paper was called with
    apRet,           \* what analyze_paper returned
    result,          \* return value of the script's main function
    exitCode,        \* process exit code, -1 while running
    diag,            \* a diagnostic message was printed
    escaped,         \* an exception left the main function
    text,            \* extracted / read text: "none", "blank", "content"
    openai_result,   \* what analyze_with_openai returned
    predefined_topics, \* what the topics file was loaded as
    suggested_topics,  \* the suggestions computed
    installAttempts, \* os.system("pip3 install ...") calls made
    depth,           \* nesting depth of extract_from_pdf / extract_from_docx
    fault,           \* an environment failure was injected
    failCause,       \* the step whose failure made the main function fail
    opens,           \* times output_path was opened for writing
    lateXform,       \* a transformation stage ran after output_path was opened
    fallbacks,       \* calls of analyze_paper made by analyze_paper_openai
    extracted_topics, \* the topics extracted: "none", "empty", "some"
    llmFailures,     \* the failures the LLM path of analyze_paper_openai met
    style,           \* the style argument of style_transfer.py
    applied,         \* the filter process_image applied
    wrote,           \* << kind, path >> of every file completely written
    call             \* a single function examined on its own: arguments and result

vars == << script, nargs, inExists, inExt, inBody, outPath, topicsArg, apiKey,
           installWorks, libOk, files0, files, dirs, pc, caller, apArgs, apRet,
           result, exitCode, diag, escaped, text, openai_result,
           predefined_topics, suggested_topics, installAttempts, depth, fault,
           failCause, opens, lateXform, fallbacks, extracted_topics,
           llmFailures, style, applied, wrote, call >>

inputs == << script, nargs, inExists, inExt, inBody, outPath, topicsArg, apiKey,
             installWorks, files0, style, call >>

(***************************************************************************)
(* Bounds                                                                  *)
(***************************************************************************)
\* Stand-in for the interpreter's recursion limit (sys.getrecursionlimit()):
\* the only thing that ends the nested extract_from_pdf / extract_from_docx calls.
RecursionLimit == 3

(***************************************************************************)
(* Paths                                                                   *)
(***************************************************************************)
Scripts == {"text_extractor", "topic_analyzer", "openai_analyzer", "style_transfer"}

OutPaths ==
    { << "d", "/", "out", ".txt" >>,           \* d/out.txt
      << "out", ".txt" >>,                     \* out.txt, no directory component
      << "d", "/", "out", ".json" >>,          \* d/out.json, no '.txt' in it
      << "d", ".txt", "/", "out", ".txt" >> }  \* d.txt/out.txt

\* Index of the last "/" of p, 0 when there is none.
LastSlash(p) ==
    LET S == { i \in DOMAIN p : p[i] = "/" }
    IN  IF S = {} THEN 0 ELSE CHOOSE i \in S : \A j \in S : j <= i

\* os.path.dirname: everything before the last separator, '' when there is none.
Dirname(p) == SubSeq(p, 1, LastSlash(p) - 1)

\* output_path.replace('.txt', '_metadata.json'): every occurrence is replaced.
MetadataPath(p) ==
    [ i \in DOMAIN p |-> IF p[i] = ".txt" THEN "_metadata.json" ELSE p[i] ]

AllPaths == OutPaths \cup { MetadataPath(p) : p \in OutPaths }

(***************************************************************************)
(* File contents                                                           *)
(***************************************************************************)
Content(kind, keys, sugg) == [ kind |-> kind, keys |-> keys, sugg |-> sugg ]

Absent  == Content("absent", {}, "none")
OldFile == Content("old", {}, "none")
Partial == Content("partial", {}, "none")

\* What extract_metadata returns: always the three keys.
extract_metadata == Content("metadata", {"title", "authors", "abstract"}, "none")

(***************************************************************************)
(* Command lines                                                           *)
(***************************************************************************)
InExts == {".pdf", ".docx", ".txt", ".jpg", ".xyz"}

\* Style arguments: a known name, a known name in capitals, an unknown name.
Styles == {"vangogh", "MONET", "sketch"}

TopicsArgs == {"omitted", "missing", "badjson", "unusable", "usable"}

\* Mutant: style_transfer.py accepts a command line without the style.
ArgcOkStyleOptional(s, n) ==
    CASE s = "text_extractor" -> n = 2
      [] OTHER                -> n >= 2

\* The sys.argv checks of the four __main__ blocks.
ArgcOk(s, n) ==
    CASE s = "text_extractor" -> n = 2
      [] s = "style_transfer" -> n = 3
      [] OTHER                -> n >= 2

\* The main function each __main__ block calls.
MainFn(s) ==
    CASE s = "text_extractor"  -> "process_document"
      [] s = "topic_analyzer"  -> "analyze_paper"
      [] s = "openai_analyzer" -> "analyze_paper_openai"
      [] OTHER                 -> "process_image"

\* Input formats each script is given in the model (extension = format).
ExtsOf(s) ==
    CASE s = "text_extractor" -> {".pdf", ".docx", ".txt", ".xyz"}
      [] s = "style_transfer" -> {".jpg", ".txt"}
      [] OTHER                -> {".txt", ".pdf"}

Init ==
    \E s \in Scripts, n \in 1..3, ex \in BOOLEAN, ext \in InExts,
       body \in {"blank", "content"}, out \in OutPaths, top \in TopicsArgs,
       key \in BOOLEAN, lib \in BOOLEAN, inst \in BOOLEAN, pre \in BOOLEAN :
        /\ ext \in ExtsOf(s)
        \* a rejected command line reads none of its arguments
        /\ ~ArgcOk(s, n) =>
             ex /\ ext = (IF s = "style_transfer" THEN ".jpg" ELSE ".txt")
                /\ body = "content" /\ out = << "d", "/", "out", ".txt" >>
                /\ lib /\ inst /\ ~pre /\ ~key
        /\ (top = "omitted") <=> (n < 3 \/ s \in {"text_extractor", "style_transfer"})
        /\ key => s = "openai_analyzer"
        /\ (s = "style_transfer") => lib /\ inst
        /\ script = s /\ nargs = n /\ inExists = ex /\ inExt = ext /\ inBody = body
        /\ outPath = out /\ topicsArg = top /\ apiKey = key
        /\ installWorks = inst /\ libOk = lib
        /\ files0 = [ p \in AllPaths |-> IF pre /\ p = out THEN OldFile ELSE Absent ]
        /\ files = [ p \in AllPaths |-> IF pre /\ p = out THEN OldFile ELSE Absent ]
        /\ dirs = IF pre /\ Dirname(out) # << >> THEN { Dirname(out) } ELSE {}
        /\ pc = "main" /\ caller = "main"
        /\ apRet = "none" /\ result = "none"
        /\ apArgs = << >>
        /\ exitCode = -1 /\ diag = FALSE /\ escaped = FALSE
        /\ text = "none" /\ openai_result = "none"
        /\ predefined_topics = "none" /\ suggested_topics = "none"
        /\ installAttempts = 0 /\ depth = 0 /\ fault = FALSE
        /\ failCause = "none" /\ opens = 0 /\ lateXform = FALSE /\ fallbacks = 0
        /\ extracted_topics = "none" /\ llmFailures = {} /\ applied = "none"
        /\ wrote = {}
        /\ call = [ fn |-> "none" ]
        /\ style \in IF s = "style_transfer" /\ ArgcOk(s, n) THEN Styles ELSE {"vangogh"}

(***************************************************************************)
(* Exceptions                                                              *)
(***************************************************************************)
\* Mutant: process_image without its try / except.
HasHandlerButImage(fn) ==
    fn \in {"process_document", "analyze_paper", "analyze_paper_openai"}

\* Each main function wraps its whole body in try / except Exception.
HasHandler(fn) ==
    fn \in {"process_document", "analyze_paper", "analyze_paper_openai", "process_image"}

\* Where an exception raised in the body of fn (called from `site`) lands:
\* the innermost enclosing handler, "escape" when there is none.
Unwind(fn, site) ==
    CASE fn = "process_document" ->
            IF HasHandler(fn) THEN "pd_except" ELSE "escape"
      [] fn = "process_image" ->
            IF HasHandler(fn) THEN "pi_except" ELSE "escape"
      [] fn = "analyze_paper_openai" ->
            IF HasHandler(fn) THEN "oa_except" ELSE "escape"
      [] OTHER ->
            IF HasHandler(fn) THEN "ap_except"
            ELSE IF site = "main" THEN "escape"
            ELSE IF site = "except" THEN "oa_inner_except"
            ELSE IF HasHandler("analyze_paper_openai") THEN "oa_except"
            ELSE "escape"

\* An exception is raised in fn at step `cause`.
Raise(fn, cause) ==
    /\ pc' = Unwind(fn, caller)
    /\ failCause' = cause

(***************************************************************************)
(* __main__ of the four scripts                                            *)
(***************************************************************************)
\* The argument count check (and, in style_transfer.py, the existence check).
Main ==
    /\ pc = "main"
    /\ IF ~ArgcOk(script, nargs) \/ (script = "style_transfer" /\ ~inExists)
         THEN /\ diag' = TRUE
              /\ exitCode' = 1
              /\ pc' = "done"
              /\ failCause' = IF ArgcOk(script, nargs) THEN "input" ELSE "usage"
         ELSE /\ pc' = MainFn(script)
              /\ UNCHANGED << diag, exitCode, failCause >>
    /\ apArgs' = IF script = "topic_analyzer" /\ ArgcOk(script, nargs)
                   THEN << "text_path", outPath, topicsArg >> ELSE apArgs
    /\ UNCHANGED << inputs, libOk, files, dirs, caller, apRet, result,
                    escaped, text, openai_result, predefined_topics,
                    suggested_topics, installAttempts, depth, fault, opens,
                    lateXform, fallbacks, extracted_topics, llmFailures,
                    applied,
                    wrote >>

\* Mutant: the exit status ignores the result.
ExitStatusAlwaysZero(s, success) == 0

\* sys.exit(0 if success else 1); style_transfer.py, whose process_image
\* returns nothing, ends by reaching the end of the script.
ExitStatus(s, success) ==
    IF s = "style_transfer" THEN 0 ELSE IF success = "True" THEN 0 ELSE 1

\* The end of __main__; an exception that left the main function
\* ends the interpreter with a traceback and status 1.
Exit ==
    /\ pc \in {"exit", "escape"}
    /\ escaped' = (pc = "escape")
    /\ exitCode' = IF pc = "exit" THEN ExitStatus(script, result) ELSE 1
    /\ pc' = "done"
    /\ UNCHANGED << inputs, libOk, files, dirs, caller, apArgs, apRet, result,
                    diag, text, openai_result, predefined_topics,
                    suggested_topics, installAttempts, depth, fault, failCause,
                    opens, lateXform, fallbacks, extracted_topics, llmFailures,
                    applied,
                    wrote >>

(***************************************************************************)
(* text_extractor.py                                                       *)
(***************************************************************************)
\* Mutant: no check of the file type, every file is read as text.
SupportedExtsAny == InExts

\* Extensions process_document dispatches on ('.text' is not in the model).
SupportedExts == {".pdf", ".docx", ".txt"}

ExtractorOf(ext) ==
    CASE ext = ".pdf"  -> "extract_from_pdf"
      [] ext = ".docx" -> "extract_from_docx"
      [] OTHER         -> "extract_from_txt"

\* process_document up to the dispatch on the file type.
ProcessDocument ==
    /\ pc = "process_document"
    /\ IF ~inExists \/ inExt \notin SupportedExts
         THEN /\ diag' = TRUE
              /\ result' = "False"
              /\ failCause' = "input"
              /\ pc' = "exit"
         ELSE /\ pc' = ExtractorOf(inExt)
              /\ UNCHANGED << diag, result, failCause >>
    /\ UNCHANGED << inputs, libOk, files, dirs, caller, apArgs, apRet, exitCode,
                    escaped, text, openai_result, predefined_topics,
                    suggested_topics, installAttempts, depth, fault, opens,
                    lateXform, fallbacks, extracted_topics, llmFailures,
                    applied,
                    wrote >>

\* One call of extract_from_pdf / extract_from_docx (the two have the same
\* shape).  With the library importable it parses the file; on ImportError it
\* runs pip3 and calls itself again; nothing in the function bounds the
\* nesting, the interpreter's recursion limit does.
ExtractWithLibrary(fn) ==
    /\ pc = fn
    /\ \/ /\ depth >= RecursionLimit
          \* RecursionError in the except ImportError block: no sibling handler
          \* catches it, it unwinds every frame up to process_document
          /\ Raise("process_document", "library")
          /\ diag' = TRUE
          /\ UNCHANGED << libOk, text, installAttempts, depth, fault, lateXform >>
       \/ /\ depth < RecursionLimit
          /\ libOk
          /\ \/ text' = inBody /\ fault' = fault
             \/ text' = "none" /\ fault' = TRUE   \* except Exception: return None
          /\ pc' = "pd_clean"
          /\ lateXform' = (lateXform \/ opens > 0)
          /\ UNCHANGED << libOk, installAttempts, depth, failCause, diag >>
       \/ /\ depth < RecursionLimit
          /\ ~libOk
          /\ diag' = TRUE
          /\ installAttempts' = installAttempts + 1
          /\ libOk' = installWorks
          /\ depth' = depth + 1
          /\ UNCHANGED << pc, text, fault, failCause, lateXform >>
    /\ UNCHANGED << inputs, files, dirs, caller, apArgs, apRet, result, exitCode,
                    escaped, openai_result, predefined_topics, suggested_topics,
                    opens, fallbacks, extracted_topics, llmFailures,
                    applied,
                    wrote >>

extract_from_pdf == ExtractWithLibrary("extract_from_pdf")

extract_from_docx == ExtractWithLibrary("extract_from_docx")

\* utf-8, then latin-1, which decodes any bytes; any other error gives None.
extract_from_txt ==
    /\ pc = "extract_from_txt"
    /\ \/ text' = inBody /\ fault' = fault
       \/ text' = "none" /\ fault' = TRUE
    /\ pc' = "pd_clean"
    /\ lateXform' = (lateXform \/ opens > 0)
    /\ UNCHANGED << inputs, libOk, files, dirs, caller, apArgs, apRet, result,
                    exitCode, diag, escaped, openai_result, predefined_topics,
                    suggested_topics, installAttempts, depth, failCause, opens,
                    fallbacks, extracted_topics, llmFailures,
                    applied,
                    wrote >>

\* process_document lines 150-162: the None check, clean_text, the empty
\* check and extract_metadata.
PdClean ==
    /\ pc = "pd_clean"
    /\ IF text # "content"
         THEN /\ diag' = TRUE
              /\ result' = "False"
              /\ failCause' = IF text = "none" THEN "extract" ELSE "input"
              /\ pc' = "exit"
         ELSE /\ pc' = "pd_save_text"
              /\ UNCHANGED << diag, result, failCause >>
    /\ lateXform' = (lateXform \/ opens > 0)
    /\ UNCHANGED << inputs, libOk, files, dirs, caller, apArgs, apRet, exitCode,
                    escaped, text, openai_result, predefined_topics,
                    suggested_topics, installAttempts, depth, fault, opens,
                    fallbacks, extracted_topics, llmFailures,
                    applied,
                    wrote >>

\* os.makedirs(d, exist_ok=True): FileNotFoundError for d = ''.
MakedirsFails(d) == d = << >>

\* open(p, 'w') needs the directory of p to exist.
CanOpen(p, ds) == Dirname(p) = << >> \/ Dirname(p) \in ds

\* process_document lines 164-169: makedirs, then the cleaned text is written.
PdSaveText ==
    /\ pc = "pd_save_text"
    /\ IF MakedirsFails(Dirname(outPath))
         THEN /\ Raise("process_document", "makedirs")
              /\ UNCHANGED << files, dirs, opens, fault, wrote >>
         ELSE /\ dirs' = dirs \cup { Dirname(outPath) }
              /\ opens' = opens + 1
              /\ \/ /\ files' = [ files EXCEPT ![outPath] = Content("text", {}, "none") ]
                    /\ wrote' = wrote \cup { << "text", outPath >> }
                    /\ pc' = "pd_save_metadata"
                    /\ UNCHANGED << fault, failCause >>
                 \/ /\ files' = [ files EXCEPT ![outPath] = Partial ]
                    /\ fault' = TRUE
                    /\ Raise("process_document", "write")
                    /\ UNCHANGED wrote
    /\ UNCHANGED << inputs, libOk, caller, apArgs, apRet, result, exitCode, diag,
                    escaped, text, openai_result, predefined_topics,
                    suggested_topics, installAttempts, depth, lateXform,
                    fallbacks, extracted_topics, llmFailures,
                    applied >>

\* process_document lines 171-187: the metadata is written to
\* output_path.replace('.txt', '_metadata.json'), then True is returned.
PdSaveMetadata ==
    /\ pc = "pd_save_metadata"
    /\ LET metadata_path == MetadataPath(outPath) IN
       IF ~CanOpen(metadata_path, dirs)
         THEN /\ Raise("process_document", "write")
              /\ UNCHANGED << files, opens, fault, result, wrote >>
         ELSE /\ opens' = IF metadata_path = outPath THEN opens + 1 ELSE opens
              /\ \/ /\ files' = [ files EXCEPT ![metadata_path] = extract_metadata ]
                    /\ wrote' = wrote \cup { << "metadata", metadata_path >> }
                    /\ result' = "True"
                    /\ pc' = "exit"
                    /\ UNCHANGED << fault, failCause >>
                 \/ /\ files' = [ files EXCEPT ![metadata_path] = Partial ]
                    /\ fault' = TRUE
                    /\ Raise("process_document", "write")
                    /\ UNCHANGED << result, wrote >>
    /\ UNCHANGED << inputs, libOk, dirs, caller, apArgs, apRet, exitCode, diag,
                    escaped, text, openai_result, predefined_topics,
                    suggested_topics, installAttempts, depth, lateXform,
                    fallbacks, extracted_topics, llmFailures,
                    applied >>

\* except Exception in process_document: print and return False.
PdExcept ==
    /\ pc = "pd_except"
    /\ diag' = TRUE
    /\ result' = "False"
    /\ pc' = "exit"
    /\ UNCHANGED << inputs, libOk, files, dirs, caller, apArgs, apRet, exitCode,
                    escaped, text, openai_result, predefined_topics,
                    suggested_topics, installAttempts, depth, fault, failCause,
                    opens, lateXform, fallbacks, extracted_topics, llmFailures,
                    applied,
                    wrote >>

(***************************************************************************)
(* topic_analyzer.py                                                       *)
(***************************************************************************)
\* What open(text_path, encoding='utf-8').read() gives: an exception for a
\* missing file or for bytes that are not UTF-8, else the text.
ReadText(path) ==
    IF path # "text_path" \/ ~inExists THEN "raise"
    ELSE IF inBody = "blank" THEN "blank"
    ELSE IF inExt = ".txt" THEN "content"
    ELSE "raise"

\* analyze_paper lines 324-334: install_dependencies, reading the text and
\* the blank check.
AnalyzePaper ==
    /\ pc = "analyze_paper"
    /\ installAttempts' = IF libOk THEN installAttempts ELSE installAttempts + 1
    /\ libOk' = (libOk \/ installWorks)
    /\ IF ~libOk'
         THEN \* the import after pip3 raises ImportError again
              /\ Raise("analyze_paper", "library")
              /\ UNCHANGED << text, diag, apRet >>
         ELSE LET t == ReadText(apArgs[1]) IN
              /\ text' = IF t = "raise" THEN text ELSE t
              /\ IF t = "raise"
                   THEN /\ Raise("analyze_paper", "input")
                        /\ UNCHANGED << diag, apRet >>
                   ELSE IF t = "blank"
                   THEN /\ diag' = TRUE
                        /\ apRet' = "False"
                        /\ failCause' = "input"
                        /\ pc' = "ap_returned"
                   ELSE /\ pc' = "ap_extract"
                        /\ UNCHANGED << diag, apRet, failCause >>
    /\ UNCHANGED << inputs, files, dirs, caller, apArgs, result, exitCode,
                    escaped, openai_result, predefined_topics, suggested_topics,
                    depth, fault, opens, lateXform, fallbacks, extracted_topics,
                    llmFailures, applied,
                    wrote >>

\* analyze_paper lines 338-348: extract_topics_lda, extract_topics_tfidf and
\* generate_summary; each catches its own exceptions and returns a value.
ApExtract ==
    /\ pc = "ap_extract"
    /\ extracted_topics' \in {"empty", "some"}
    /\ lateXform' = (lateXform \/ opens > 0)
    /\ pc' = "ap_suggest"
    /\ UNCHANGED << inputs, libOk, files, dirs, caller, apArgs, apRet, result,
                    exitCode, diag, escaped, text, openai_result,
                    predefined_topics, suggested_topics, installAttempts, depth,
                    fault, failCause, opens, fallbacks, llmFailures, applied,
                    wrote >>

\* Loading the predefined topics (both analyzers): [] unless the path is
\* given, exists and parses as JSON; whatever json.load returns otherwise.
LoadTopics(arg) ==
    CASE arg \in {"omitted", "missing", "badjson"} -> "empty"
      [] arg = "unusable" -> "unusable"
      [] OTHER -> "usable"

\* Mutant: suggest_topics without its try / except.
SuggestTopicsUnguarded(e, p, m) ==
    IF e = "some" /\ p = "unusable" THEN "raise"
    ELSE IF e = "some" /\ p = "usable" /\ m THEN "some" ELSE "empty"

\* suggest_topics: what it returns for extracted topics e, loaded topics p,
\* and m = some predefined topic scores above 0.3.  Entries that cannot be
\* used raise inside the loops, which the function's own try turns into [].
SuggestTopicsOutcome(e, p, m) ==
    IF e = "some" /\ p = "usable" /\ m THEN "some" ELSE "empty"

\* analyze_paper lines 350-361.
ApSuggest ==
    /\ pc = "ap_suggest"
    /\ predefined_topics' = LoadTopics(apArgs[3])
    /\ \E m \in BOOLEAN :
         LET r == SuggestTopicsOutcome(extracted_topics, predefined_topics', m) IN
         IF r = "raise"
           THEN /\ Raise("analyze_paper", "topics")
                /\ UNCHANGED suggested_topics
           ELSE /\ suggested_topics' = r
                /\ pc' = "ap_save"
                /\ UNCHANGED failCause
    /\ lateXform' = (lateXform \/ opens > 0)
    /\ UNCHANGED << inputs, libOk, files, dirs, caller, apArgs, apRet, result,
                    exitCode, diag, escaped, text, openai_result,
                    installAttempts, depth, fault, opens, fallbacks,
                    extracted_topics, llmFailures, applied,
                    wrote >>

\* The top-level keys of the object analyze_paper writes.
LocalKeys == {"summary", "extractedTopics", "suggestedTopics", "analysisDate"}

\* analyze_paper lines 363-384: makedirs, json.dump to output_path, True.
ApSave ==
    /\ pc = "ap_save"
    /\ LET out == apArgs[2] IN
       IF MakedirsFails(Dirname(out))
         THEN /\ Raise("analyze_paper", "makedirs")
              /\ UNCHANGED << files, dirs, opens, fault, apRet, wrote >>
         ELSE /\ dirs' = dirs \cup { Dirname(out) }
              /\ opens' = IF out = outPath THEN opens + 1 ELSE opens
              /\ \/ /\ files' = [ files EXCEPT
                                    ![out] = Content("analysis", LocalKeys, suggested_topics) ]
                    /\ wrote' = wrote \cup { << "analysis", out >> }
                    /\ apRet' = "True"
                    /\ pc' = "ap_returned"
                    /\ UNCHANGED << fault, failCause >>
                 \/ /\ files' = [ files EXCEPT ![out] = Partial ]
                    /\ fault' = TRUE
                    /\ Raise("analyze_paper", "write")
                    /\ UNCHANGED << apRet, wrote >>
    /\ UNCHANGED << inputs, libOk, caller, apArgs, result, exitCode, diag,
                    escaped, text, openai_result, predefined_topics,
                    suggested_topics, installAttempts, depth, lateXform,
                    fallbacks, extracted_topics, llmFailures, applied >>

\* except Exception in analyze_paper: print and return False.
ApExcept ==
    /\ pc = "ap_except"
    /\ diag' = TRUE
    /\ apRet' = "False"
    /\ pc' = "ap_returned"
    /\ UNCHANGED << inputs, libOk, files, dirs, caller, apArgs, result, exitCode,
                    escaped, text, openai_result, predefined_topics,
                    suggested_topics, installAttempts, depth, fault, failCause,
                    opens, lateXform, fallbacks, extracted_topics, llmFailures,
                    applied,
                    wrote >>

\* `return analyze_paper(...)` in analyze_paper_openai: the value passed on.
FallbackResult(r) == r

\* analyze_paper has returned: to __main__, or to analyze_paper_openai, which
\* returns the same value.  (An exception out of the call made in the
\* handler of analyze_paper_openai gives False, lines 286-288.)
ApReturned ==
    /\ pc \in {"ap_returned", "oa_inner_except"}
    /\ result' = IF pc = "oa_inner_except" THEN "False"
                 ELSE IF caller = "main" THEN apRet
                 ELSE FallbackResult(apRet)
    /\ pc' = "exit"
    /\ UNCHANGED << inputs, libOk, files, dirs, caller, apArgs, apRet, exitCode,
                    diag, escaped, text, openai_result, predefined_topics,
                    suggested_topics, installAttempts, depth, fault, failCause,
                    opens, lateXform, fallbacks, extracted_topics, llmFailures,
                    applied,
                    wrote >>

(***************************************************************************)
(* openai_analyzer.py                                                      *)
(***************************************************************************)
\* Mutant: the fallback call drops the predefined-topics path.
FallbackArgsNoTopics == << "text_path", outPath, "omitted" >>

\* The arguments analyze_paper_openai passes to analyze_paper at each of its
\* three call sites: its own text_path, output_path, predefined_topics_path.
FallbackArgs == << "text_path", outPath, topicsArg >>

\* `from topic_analyzer import analyze_paper; return analyze_paper(...)`.
CallFallback(site) ==
    /\ caller' = site
    /\ apArgs' = FallbackArgs
    /\ fallbacks' = fallbacks + 1
    /\ pc' = "analyze_paper"

\* analyze_paper_openai lines 211-217 with setup_openai: no key, or the
\* client constructor raising, gives None and the local analyzer is called.
AnalyzePaperOpenai ==
    /\ pc = "analyze_paper_openai"
    /\ \/ /\ apiKey
          /\ pc' = "oa_read"
          /\ UNCHANGED << caller, apArgs, fallbacks, llmFailures, fault, diag >>
       \/ /\ ~apiKey
          /\ diag' = TRUE
          /\ llmFailures' = llmFailures \cup {"noclient"}
          /\ CallFallback("noclient")
          /\ UNCHANGED fault
       \/ /\ apiKey
          /\ diag' = TRUE
          /\ fault' = TRUE
          /\ llmFailures' = llmFailures \cup {"noclient"}
          /\ CallFallback("noclient")
    /\ UNCHANGED << inputs, libOk, files, dirs, apRet, result, exitCode, escaped,
                    text, openai_result, predefined_topics, suggested_topics,
                    installAttempts, depth, failCause, opens, lateXform,
                    extracted_topics, applied,
                    wrote >>

\* analyze_paper_openai lines 219-227: reading the text and the blank check.
OaRead ==
    /\ pc = "oa_read"
    /\ LET t == ReadText("text_path") IN
       /\ text' = IF t = "raise" THEN text ELSE t
       /\ IF t = "raise"
            THEN /\ Raise("analyze_paper_openai", "input")
                 /\ UNCHANGED << diag, result >>
            ELSE IF t = "blank"
            THEN /\ diag' = TRUE
                 /\ result' = "False"
                 /\ failCause' = "input"
                 /\ pc' = "exit"
            ELSE /\ pc' = "oa_llm"
                 /\ UNCHANGED << diag, result, failCause >>
    /\ UNCHANGED << inputs, libOk, files, dirs, caller, apArgs, apRet, exitCode,
                    escaped, openai_result, predefined_topics, suggested_topics,
                    installAttempts, depth, fault, opens, lateXform, fallbacks,
                    extracted_topics, llmFailures, applied,
                    wrote >>

\* What analyze_with_openai can return:
\*   "None"     the API call raised, or extract_from_text_response did
\*   "falsy"    the reply parsed to {}, [], null, 0 or ""
\*   "nondict"  the reply parsed to a non-empty list, a string or a number
\*   "dict"     a JSON object (or the dict extract_from_text_response builds)
\*   "dict_bad" a JSON object whose summary is no string (null, a number) or
\*              whose extractedTopics has no length
OpenaiResults == {"None", "falsy", "nondict", "dict", "dict_bad"}

\* `if not openai_result`
Falsy(r) == r \in {"None", "falsy"}

\* analyze_paper_openai lines 229-235 with analyze_with_openai.
OaLlm ==
    /\ pc = "oa_llm"
    /\ \E r \in OpenaiResults :
         /\ openai_result' = r
         /\ fault' = (fault \/ r = "None")
         /\ IF Falsy(r)
              THEN /\ diag' = TRUE
                   /\ llmFailures' = llmFailures \cup {"noresult"}
                   /\ CallFallback("noresult")
                   /\ UNCHANGED extracted_topics
              ELSE /\ pc' = "oa_suggest"
                   /\ extracted_topics' \in
                        IF r = "nondict" THEN {"none"} ELSE {"empty", "some"}
                   /\ UNCHANGED << diag, llmFailures, caller, apArgs, fallbacks >>
    /\ lateXform' = (lateXform \/ opens > 0)
    /\ UNCHANGED << inputs, libOk, files, dirs, apRet, result, exitCode, escaped,
                    text, predefined_topics, suggested_topics, installAttempts,
                    depth, failCause, opens, applied,
                    wrote >>

\* suggest_topics_openai: what it returns for loaded topics p, llmOk = the
\* API call succeeded and its reply was well formed, m = the reply names a
\* predefined topic.  Every exception inside it is caught there and gives [].
SuggestOpenaiOutcome(p, llmOk, m) ==
    IF p = "usable" /\ llmOk /\ m THEN "some" ELSE "empty"

\* analyze_paper_openai lines 237-253: the predefined topics are loaded and,
\* when there are some and the result has extractedTopics,
\* suggest_topics_openai is called.
OaSuggest ==
    /\ pc = "oa_suggest"
    /\ predefined_topics' = LoadTopics(topicsArg)
    /\ IF predefined_topics' = "empty"
         THEN /\ suggested_topics' = "empty"
              /\ pc' = "oa_save"
              /\ UNCHANGED << failCause, llmFailures, fault >>
         ELSE IF openai_result = "nondict"
         THEN \* openai_result.get: AttributeError
              /\ Raise("analyze_paper_openai", "llm")
              /\ UNCHANGED << suggested_topics, llmFailures, fault >>
         ELSE IF extracted_topics = "empty"
         THEN /\ suggested_topics' = "empty"
              /\ pc' = "oa_save"
              /\ UNCHANGED << failCause, llmFailures, fault >>
         ELSE \E llmOk \in BOOLEAN, m \in BOOLEAN :
              \* unusable entries raise before the API call is made
              /\ predefined_topics' = "unusable" => llmOk /\ ~m
              /\ suggested_topics' = SuggestOpenaiOutcome(predefined_topics', llmOk, m)
              /\ llmFailures' = IF llmOk THEN llmFailures
                                  ELSE llmFailures \cup {"suggest"}
              /\ fault' = (fault \/ ~llmOk)
              /\ pc' = "oa_save"
              /\ UNCHANGED failCause
    /\ lateXform' = (lateXform \/ opens > 0)
    /\ UNCHANGED << inputs, libOk, files, dirs, caller, apArgs, apRet, result,
                    exitCode, diag, escaped, text, openai_result,
                    installAttempts, depth, opens, fallbacks, extracted_topics,
                    applied,
                    wrote >>

\* The top-level keys of the object analyze_paper_openai writes.
OpenaiKeys == {"summary", "extractedTopics", "suggestedTopics", "suggestedAreas",
               "analysisDate", "analyzedWith"}

\* analyze_paper_openai lines 255-270: the result object is built with
\* openai_result.get, makedirs, json.dump to output_path.
OaSave ==
    /\ pc = "oa_save"
    /\ IF openai_result = "nondict"
         THEN /\ Raise("analyze_paper_openai", "llm")
              /\ UNCHANGED << files, dirs, opens, fault, wrote >>
         ELSE IF MakedirsFails(Dirname(outPath))
         THEN /\ Raise("analyze_paper_openai", "makedirs")
              /\ UNCHANGED << files, dirs, opens, fault, wrote >>
         ELSE /\ dirs' = dirs \cup { Dirname(outPath) }
              /\ opens' = opens + 1
              /\ \/ /\ files' = [ files EXCEPT
                                    ![outPath] = Content("analysis", OpenaiKeys, suggested_topics) ]
                    /\ wrote' = wrote \cup { << "analysis", outPath >> }
                    /\ pc' = "oa_report"
                    /\ UNCHANGED << fault, failCause >>
                 \/ /\ files' = [ files EXCEPT ![outPath] = Partial ]
                    /\ fault' = TRUE
                    /\ Raise("analyze_paper_openai", "write")
                    /\ UNCHANGED wrote
    /\ UNCHANGED << inputs, libOk, caller, apArgs, apRet, result, exitCode, diag,
                    escaped, text, openai_result, predefined_topics,
                    suggested_topics, installAttempts, depth, lateXform,
                    fallbacks, extracted_topics, llmFailures, applied >>

\* analyze_paper_openai lines 272-278: the report printed after the write,
\* still inside the try: len(extractedTopics) and summary[:100] raise
\* TypeError for a reply whose fields have the wrong type.
OaReport ==
    /\ pc = "oa_report"
    /\ IF openai_result = "dict_bad"
         THEN /\ Raise("analyze_paper_openai", "report")
              /\ UNCHANGED result
         ELSE /\ result' = "True"
              /\ pc' = "exit"
              /\ UNCHANGED failCause
    /\ UNCHANGED << inputs, libOk, files, dirs, caller, apArgs, apRet, exitCode,
                    diag, escaped, text, openai_result, predefined_topics,
                    suggested_topics, installAttempts, depth, fault, opens,
                    lateXform, fallbacks, extracted_topics, llmFailures,
                    applied,
                    wrote >>

\* except Exception in analyze_paper_openai, lines 280-285: print, then the
\* local analyzer.
OaExcept ==
    /\ pc = "oa_except"
    /\ diag' = TRUE
    /\ llmFailures' = llmFailures \cup {"exception"}
    /\ CallFallback("except")
    /\ UNCHANGED << inputs, libOk, files, dirs, apRet, result, exitCode, escaped,
                    text, openai_result, predefined_topics, suggested_topics,
                    installAttempts, depth, fault, failCause, opens, lateXform,
                    extracted_topics, applied,
                    wrote >>

(***************************************************************************)
(* style_transfer.py                                                       *)
(***************************************************************************)
\* Mutant: the style name is looked up as given.
LowerOmitted(st) == st

\* str.lower on the style names of the model.
Lower(st) == IF st = "MONET" THEN "monet" ELSE st

\* The keys of style_functions.
StyleNames == {"vangogh", "picasso", "monet", "abstract", "dali", "warhol", "kandinsky"}

\* The filter process_image picks, lines 316-320.
SelectStyle(st) == IF Lower(st) \in StyleNames THEN Lower(st) ELSE "vangogh"

\* process_image lines 291-320: Image.open, convert, resize, the filter.
ProcessImage ==
    /\ pc = "process_image"
    /\ IF inExt # ".jpg" \/ inBody = "blank"
         THEN \* Image.open cannot identify the file
              /\ Raise("process_image", "input")
              /\ UNCHANGED << applied, fault >>
         ELSE \/ /\ applied' = SelectStyle(style)
                 /\ pc' = "pi_save"
                 /\ UNCHANGED << fault, failCause >>
              \/ /\ fault' = TRUE
                 /\ Raise("process_image", "filter")
                 /\ UNCHANGED applied
    /\ lateXform' = (lateXform \/ opens > 0)
    /\ UNCHANGED << inputs, libOk, files, dirs, caller, apArgs, apRet, result,
                    exitCode, diag, escaped, text, openai_result,
                    predefined_topics, suggested_topics, installAttempts, depth,
                    opens, fallbacks, extracted_topics, llmFailures,
                    wrote >>

\* process_image lines 322-329: makedirs and the JPEG save; the function
\* then returns nothing.
PiSave ==
    /\ pc = "pi_save"
    /\ IF MakedirsFails(Dirname(outPath))
         THEN /\ Raise("process_image", "makedirs")
              /\ UNCHANGED << files, dirs, opens, fault, result, wrote >>
         ELSE /\ dirs' = dirs \cup { Dirname(outPath) }
              /\ opens' = opens + 1
              /\ \/ /\ files' = [ files EXCEPT ![outPath] = Content("jpeg", {}, "none") ]
                    /\ wrote' = wrote \cup { << "jpeg", outPath >> }
                    /\ result' = "None"
                    /\ pc' = "exit"
                    /\ UNCHANGED << fault, failCause >>
                 \/ /\ files' = [ files EXCEPT ![outPath] = Partial ]
                    /\ fault' = TRUE
                    /\ Raise("process_image", "write")
                    /\ UNCHANGED << result, wrote >>
    /\ UNCHANGED << inputs, libOk, caller, apArgs, apRet, exitCode, diag, escaped,
                    text, openai_result, predefined_topics, suggested_topics,
                    installAttempts, depth, lateXform, fallbacks,
                    extracted_topics, llmFailures, applied >>

\* except Exception in process_image, lines 331-333: print and sys.exit(1).
PiExcept ==
    /\ pc = "pi_except"
    /\ diag' = TRUE
    /\ exitCode' = 1
    /\ pc' = "done"
    /\ UNCHANGED << inputs, libOk, files, dirs, caller, apArgs, apRet, result,
                    escaped, text, openai_result, predefined_topics,
                    suggested_topics, installAttempts, depth, fault, failCause,
                    opens, lateXform, fallbacks, extracted_topics, llmFailures,
                    applied,
                    wrote >>

Next ==
    \/ Main
    \/ Exit
    \/ ProcessDocument
    \/ extract_from_pdf
    \/ extract_from_docx
    \/ extract_from_txt
    \/ PdClean
    \/ PdSaveText
    \/ PdSaveMetadata
    \/ PdExcept
    \/ AnalyzePaper
    \/ ApExtract
    \/ ApSuggest
    \/ ApSave
    \/ ApExcept
    \/ ApReturned
    \/ AnalyzePaperOpenai
    \/ OaRead
    \/ OaLlm
    \/ OaSuggest
    \/ OaSave
    \/ OaReport
    \/ OaExcept
    \/ ProcessImage
    \/ PiSave
    \/ PiExcept

Spec == Init /\ [][Next]_vars

(***************************************************************************)
(* Functions examined on their own                                         *)
(*                                                                         *)
(* The specifications below run one function of the scripts on arguments   *)
(* drawn from bounded sets; no script is running.                          *)
(***************************************************************************)
\* Every variable of the scripts at rest.
NoScript ==
    /\ script = "none" /\ nargs = 0 /\ inExists = FALSE /\ inExt = ".txt"
    /\ inBody = "blank" /\ outPath = << >> /\ topicsArg = "omitted"
    /\ apiKey = FALSE /\ installWorks = FALSE /\ libOk = FALSE
    /\ files0 = << >> /\ files = << >> /\ dirs = {}
    /\ pc = "call" /\ caller = "main" /\ apArgs = << >> /\ apRet = "none"
    /\ result = "none" /\ exitCode = -1 /\ diag = FALSE /\ escaped = FALSE
    /\ text = "none" /\ openai_result = "none" /\ predefined_topics = "none"
    /\ suggested_topics = "none" /\ installAttempts = 0 /\ depth = 0
    /\ fault = FALSE /\ failCause = "none" /\ opens = 0 /\ lateXform = FALSE
    /\ fallbacks = 0 /\ extracted_topics = "none" /\ llmFailures = {}
    /\ style = "vangogh" /\ applied = "none" /\ wrote = {}

scriptVars == << script, nargs, inExists, inExt, inBody, outPath, topicsArg,
                 apiKey, installWorks, libOk, files0, files, dirs, pc, caller,
                 apArgs, apRet, result, exitCode, diag, escaped, text,
                 openai_result, predefined_topics, suggested_topics,
                 installAttempts, depth, fault, failCause, opens, lateXform,
                 fallbacks, extracted_topics, llmFailures, style, applied, wrote >>

Max(a, b) == IF a >= b THEN a ELSE b

(***************************************************************************)
(* process_image: the size limit                                           *)
(***************************************************************************)
\* max_size = 1024
max_size == 1024

\* Image sides of the model: the smallest ones, and those around max_size
\* and twice max_size, each DimSpan wide.
DimSpan == 3

Dims ==
    (1 .. DimSpan)
      \cup ((max_size - DimSpan) .. (max_size + DimSpan))
      \cup ((2 * max_size - DimSpan) .. (2 * max_size + DimSpan))

\* max_size / m is exact in binary floating point when m is a power of two.
RatioExact(m) == \E k \in 0 .. 13 : m = 2 ^ k

\* int(dim * ratio) with ratio = max_size / m in floating point: the exact
\* floor, except that a product whose exact value is an integer q may come
\* out just below q and truncate to q - 1 (1122 * (1024 / 1122) gives 1023).
Scaled(dim, m) ==
    LET q == (dim * max_size) \div m IN
    IF (dim * max_size) % m = 0 /\ ~RatioExact(m) THEN { q - 1, q } ELSE { q }

\* process_image lines 298-303: the sizes the size limit can give a w x h image.
Resize(w, h) ==
    IF Max(w, h) > max_size
      THEN { << a, b >> : a \in Scaled(w, Max(w, h)), b \in Scaled(h, Max(w, h)) }
      ELSE { << w, h >> }

InitResize ==
    /\ NoScript
    /\ \E w \in Dims, h \in Dims :
         call = [ fn |-> "resize", size |-> << w, h >>, new_size |-> << w, h >>,
                  done |-> FALSE ]

ResizeStep ==
    /\ call.fn = "resize" /\ ~call.done
    /\ \E r \in Resize(call.size[1], call.size[2]) :
         call' = [ call EXCEPT !.new_size = r, !.done = TRUE ]
    /\ UNCHANGED scriptVars

SpecResize == InitResize /\ [][ResizeStep]_vars

(***************************************************************************)
(* Strings                                                                 *)
(*                                                                         *)
(* A string is a sequence of characters; "A" is the one capital letter.    *)
(***************************************************************************)
\* str.lower
LowerStr(str) == [ i \in DOMAIN str |-> IF str[i] = "A" THEN "a" ELSE str[i] ]

\* `a in b` for strings: a is a substring of b (the empty string always is).
IsSubstr(a, b) ==
    \E i \in 0 .. (Len(b) - Len(a)) : SubSeq(b, i + 1, i + Len(a)) = a

\* str.split(): the maximal runs of non-blank characters, in order.
RECURSIVE SplitFrom(_, _, _)
SplitFrom(str, i, word) ==
    IF i > Len(str)
      THEN IF word = << >> THEN << >> ELSE << word >>
    ELSE IF str[i] = " "
      THEN (IF word = << >> THEN << >> ELSE << word >>) \o SplitFrom(str, i + 1, << >>)
    ELSE SplitFrom(str, i + 1, Append(word, str[i]))

Split(str) == SplitFrom(str, 1, << >>)

(***************************************************************************)
(* suggest_topics                                                          *)
(*                                                                         *)
(* Scores are counted in tenths (0.8 is 8), so that the threshold 0.3 and  *)
(* the cap 1.0 are compared exactly as the sums of 0.8, 0.5 and 0.3 are.   *)
(***************************************************************************)
\* Lengths of the argument lists.
MaxPredefined == 6
MaxExtracted == 2

\* The number of words w of the name with `w in keyword or keyword in w`.
RECURSIVE PartialMatches(_, _)
PartialMatches(words, keyword) ==
    IF words = << >> THEN 0
    ELSE (IF IsSubstr(Head(words), keyword) \/ IsSubstr(keyword, Head(words))
            THEN 1 ELSE 0)
         + PartialMatches(Tail(words), keyword)

\* suggest_topics lines 283-295: the similarity of a keyword list and a topic.
RECURSIVE Similarity(_, _, _)
Similarity(keywords, topic_name, topic_desc) ==
    IF keywords = << >> THEN 0
    ELSE LET keyword == LowerStr(Head(keywords)) IN
         (IF IsSubstr(keyword, topic_name) THEN 8
          ELSE IF IsSubstr(keyword, topic_desc) THEN 5 ELSE 0)
         + 3 * PartialMatches(Split(topic_name), keyword)
         + Similarity(Tail(keywords), topic_name, topic_desc)

\* extracted_topic.get('keywords', [extracted_topic['topic']])
KeywordsOf(extracted_topic) ==
    IF extracted_topic.has_keywords THEN extracted_topic.keywords
    ELSE << extracted_topic.topic >>

\* predefined_topic.get('_id', predefined_topic['name'])
TopicId(predefined_topic) ==
    IF predefined_topic.has_id THEN predefined_topic.id
    ELSE predefined_topic.name

\* The score of one extracted topic against one predefined topic.
Score(extracted_topic, predefined_topic) ==
    Similarity(KeywordsOf(extracted_topic),
               LowerStr(predefined_topic.name), LowerStr(predefined_topic.description))

\* suggest_topics lines 297-302: the suggestion appended, if any.
Suggestion(extracted_topic, predefined_topic) ==
    IF Score(extracted_topic, predefined_topic) > 3
      THEN << [ topicId |-> TopicId(predefined_topic),
                topicName |-> predefined_topic.name,
                suggestionScore |-> IF Score(extracted_topic, predefined_topic) < 10
                                      THEN Score(extracted_topic, predefined_topic)
                                      ELSE 10 ] >>
      ELSE << >>

\* The inner loop: one extracted topic against every predefined topic.
RECURSIVE SuggestionsFor(_, _)
SuggestionsFor(extracted_topic, predefined) ==
    IF predefined = << >> THEN << >>
    ELSE Suggestion(extracted_topic, Head(predefined))
         \o SuggestionsFor(extracted_topic, Tail(predefined))

\* suggest_topics lines 275-302: the outer loop.
RECURSIVE AllSuggestions(_, _)
AllSuggestions(extracted, predefined) ==
    IF extracted = << >> THEN << >>
    ELSE SuggestionsFor(Head(extracted), predefined)
         \o AllSuggestions(Tail(extracted), predefined)

\* Mutant: of the suggestions of one topicId the best one is kept.
RECURSIVE UniqueBest(_, _)
UniqueBest(suggestions, seen_topics) ==
    IF suggestions = << >> THEN << >>
    ELSE IF Head(suggestions).topicId \in seen_topics
      THEN UniqueBest(Tail(suggestions), seen_topics)
    ELSE LET same == { i \in DOMAIN suggestions :
                         suggestions[i].topicId = Head(suggestions).topicId }
             best == CHOOSE i \in same :
                         \A j \in same :
                             suggestions[j].suggestionScore <= suggestions[i].suggestionScore
         IN  << suggestions[best] >>
             \o UniqueBest(Tail(suggestions),
                           seen_topics \cup { Head(suggestions).topicId })

\* suggest_topics lines 305-312: the first suggestion of every topicId.
RECURSIVE Unique(_, _)
Unique(suggestions, seen_topics) ==
    IF suggestions = << >> THEN << >>
    ELSE IF Head(suggestions).topicId \in seen_topics
      THEN Unique(Tail(suggestions), seen_topics)
    ELSE << Head(suggestions) >>
         \o Unique(Tail(suggestions), seen_topics \cup { Head(suggestions).topicId })

\* list.sort(key=suggestionScore, reverse=True): stable, so a suggestion is
\* placed behind those of the same score that came before it.
RECURSIVE InsertSorted(_, _)
InsertSorted(sorted, x) ==
    IF sorted = << >> THEN << x >>
    ELSE IF Head(sorted).suggestionScore >= x.suggestionScore
      THEN << Head(sorted) >> \o InsertSorted(Tail(sorted), x)
    ELSE << x >> \o sorted

RECURSIVE SortByScore(_, _)
SortByScore(suggestions, sorted) ==
    IF suggestions = << >> THEN sorted
    ELSE SortByScore(Tail(suggestions), InsertSorted(sorted, Head(suggestions)))

\* Mutant: the list is returned whole.
TopAll(suggestions) == suggestions

\* unique_suggestions[:5]
Top5(suggestions) ==
    SubSeq(suggestions, 1, IF Len(suggestions) < 5 THEN Len(suggestions) ELSE 5)

\* suggest_topics for well-formed arguments.
suggest_topics(extracted, predefined) ==
    Top5(SortByScore(Unique(AllSuggestions(extracted, predefined), {}), << >>))

\* The extracted topics a list is drawn from: one without keywords, whose
\* name is its keyword, and one with a capital keyword.
ExtractedTopics ==
    { [ topic |-> << "a", "b" >>, has_keywords |-> FALSE, keywords |-> << >> ],
      [ topic |-> << "t" >>, has_keywords |-> TRUE, keywords |-> << << "A" >> >> ] }

\* The _id of the i-th predefined topic when it has one of its own.
OwnId(i) == << "k", << "1", "2", "3", "4", "5", "6", "7", "8", "9" >>[i] >>

\* The predefined topics the i-th entry of a list is drawn from: a two-word
\* name with an _id of its own, a capitalised name with an _id other entries
\* share, and an entry without _id that matches "a" by its description and
\* reaches only the threshold of 0.3 against "ab".
PredefinedTopics(i) ==
    { [ name |-> << "a", " ", "b" >>, description |-> << >>,
        has_id |-> TRUE, id |-> OwnId(i) ],
      [ name |-> << "A", "b" >>, description |-> << >>,
        has_id |-> TRUE, id |-> << "d" >> ],
      [ name |-> << "b" >>, description |-> << "a" >>,
        has_id |-> FALSE, id |-> << >> ] }

ExtractedLists ==
    UNION { [ 1 .. n -> ExtractedTopics ] : n \in 0 .. MaxExtracted }

PredefinedLists ==
    UNION { { l \in [ 1 .. n -> UNION { PredefinedTopics(i) : i \in 1 .. n } ] :
                \A i \in 1 .. n : l[i] \in PredefinedTopics(i) } :
            n \in 0 .. MaxPredefined }

InitSuggest ==
    /\ NoScript
    /\ \E e \in ExtractedLists, p \in PredefinedLists :
           call = [ fn |-> "suggest_topics", extracted_topics |-> e,
                    predefined_topics |-> p, done |-> FALSE, result |-> << >> ]

\* The call of suggest_topics, topic_analyzer.py line 366.
SuggestTopics ==
    /\ call.fn = "suggest_topics"
    /\ ~ call.done
    /\ call' = [ call EXCEPT
                   !.done = TRUE,
                   !.result = suggest_topics(call.extracted_topics,
                                             call.predefined_topics) ]
    /\ UNCHANGED scriptVars

SpecSuggest == InitSuggest /\ [][SuggestTopics]_vars

(***************************************************************************)
(* suggest_topics_openai                                                   *)
(*                                                                         *)
(* The reply of the model is an input: what the API call does, and what    *)
(* text it returns, is not decided by the program.                         *)
(***************************************************************************)
\* Lengths of the predefined list and of the reply's suggestions.
MaxTopics == 2
MaxReplied == 2

\* `if topic_id:` for a string.
Truthy(str) == str # << >>

\* Mutant: only the inner handler is there.
CatchesJsonOnly(exc) == exc = "JSONDecodeError"

\* The handlers of lines 200 and 204: every exception raised here is an
\* Exception.
Catches(exc) == exc \in { "JSONDecodeError", "KeyError", "AttributeError", "APIError" }

\* Lines 185-189: the first predefined topic of the suggested name, 0 if none.
MatchOf(suggestion, predefined) ==
    LET same == { k \in DOMAIN predefined :
                    LowerStr(predefined[k].name) = LowerStr(suggestion.topicName) }
    IN  IF same = {} THEN 0 ELSE CHOOSE k \in same : \A m \in same : k <= m

\* Lines 183-196 for one suggestion: the exception raised, or the list of
\* what is appended.
FormatOne(suggestion, predefined) ==
    IF ~ suggestion.has_name
      THEN [ exc |-> "KeyError", list |-> << >> ]
    ELSE IF MatchOf(suggestion, predefined) = 0
      THEN [ exc |-> "none", list |-> << >> ]
    ELSE IF ~ Truthy(TopicId(predefined[MatchOf(suggestion, predefined)]))
      THEN [ exc |-> "none", list |-> << >> ]
    ELSE IF ~ suggestion.has_score
      THEN [ exc |-> "KeyError", list |-> << >> ]
    ELSE [ exc |-> "none",
           list |-> << [ topicId |-> TopicId(predefined[MatchOf(suggestion, predefined)]),
                         topicName |-> suggestion.topicName,
                         suggestionScore |-> suggestion.suggestionScore ] >> ]

\* Lines 182-198: the loop over the suggestions, left by the first exception.
RECURSIVE Format(_, _)
Format(suggestions, predefined) ==
    IF suggestions = << >> THEN [ exc |-> "none", list |-> << >> ]
    ELSE LET first == FormatOne(Head(suggestions), predefined) IN
         IF first.exc # "none" THEN first
         ELSE LET rest == Format(Tail(suggestions), predefined) IN
              IF rest.exc # "none" THEN rest
              ELSE [ exc |-> "none", list |-> first.list \o rest.list ]

\* What the body of the function does before any handler: the exception it
\* raises, or the list it returns.
SuggestOpenaiBody(predefined, reply) ==
    IF predefined = << >> THEN [ exc |-> "none", list |-> << >> ]
    ELSE IF reply.kind = "api_error" THEN [ exc |-> "APIError", list |-> << >> ]
    ELSE IF reply.kind = "not_json" THEN [ exc |-> "JSONDecodeError", list |-> << >> ]
    ELSE IF reply.kind = "json_list" THEN [ exc |-> "AttributeError", list |-> << >> ]
    ELSE Format(reply.suggestions, predefined)

\* suggest_topics_openai: a caught exception gives the empty list.
suggest_topics_openai(predefined, reply) ==
    LET body == SuggestOpenaiBody(predefined, reply) IN
    IF body.exc = "none" THEN [ raised |-> FALSE, value |-> body.list ]
    ELSE IF Catches(body.exc) THEN [ raised |-> FALSE, value |-> << >> ]
    ELSE [ raised |-> TRUE, value |-> << >> ]

\* The predefined topics a list is drawn from: two of the same name up to
\* case, one without _id, one whose _id is the empty string.
OpenaiTopics ==
    { [ name |-> << "A", "b" >>, has_id |-> TRUE, id |-> << "k", "1" >> ],
      [ name |-> << "a", "b" >>, has_id |-> TRUE, id |-> << "k", "2" >> ],
      [ name |-> << "b" >>, has_id |-> FALSE, id |-> << >> ],
      [ name |-> << "c" >>, has_id |-> TRUE, id |-> << >> ] }

\* The suggestions a reply is made of: well formed ones that name a topic
\* in another case, in the same case, a topic of unusable _id and no topic;
\* and ones that lack the name or the score.
RepliedSuggestions ==
    { [ has_name |-> TRUE, topicName |-> << "a", "b" >>, has_score |-> TRUE,
        suggestionScore |-> 9 ],
      [ has_name |-> TRUE, topicName |-> << "b" >>, has_score |-> TRUE,
        suggestionScore |-> 5 ],
      [ has_name |-> TRUE, topicName |-> << "c" >>, has_score |-> TRUE,
        suggestionScore |-> 4 ],
      [ has_name |-> TRUE, topicName |-> << "z" >>, has_score |-> TRUE,
        suggestionScore |-> 7 ],
      [ has_name |-> FALSE, topicName |-> << >>, has_score |-> TRUE,
        suggestionScore |-> 5 ],
      [ has_name |-> TRUE, topicName |-> << "A", "b" >>, has_score |-> FALSE,
        suggestionScore |-> 0 ],
      [ has_name |-> TRUE, topicName |-> << "z" >>, has_score |-> FALSE,
        suggestionScore |-> 0 ] }

Replies ==
    { [ kind |-> k, suggestions |-> << >> ] : k \in { "api_error", "not_json", "json_list" } }
    \cup { [ kind |-> "json", suggestions |-> l ] :
             l \in UNION { [ 1 .. n -> RepliedSuggestions ] : n \in 0 .. MaxReplied } }

InitSuggestOpenai ==
    /\ NoScript
    /\ \E p \in UNION { [ 1 .. n -> OpenaiTopics ] : n \in 0 .. MaxTopics },
          r \in Replies :
           call = [ fn |-> "suggest_topics_openai", predefined_topics |-> p,
                    reply |-> r, done |-> FALSE, raised |-> FALSE, result |-> << >> ]

\* The call of suggest_topics_openai, openai_analyzer.py line 251.
SuggestTopicsOpenai ==
    /\ call.fn = "suggest_topics_openai"
    /\ ~ call.done
    /\ call' = [ call EXCEPT
                   !.done = TRUE,
                   !.raised = suggest_topics_openai(call.predefined_topics,
                                                    call.reply).raised,
                   !.result = suggest_topics_openai(call.predefined_topics,
                                                    call.reply).value ]
    /\ UNCHANGED scriptVars

SpecSuggestOpenai == InitSuggestOpenai /\ [][SuggestTopicsOpenai]_vars

(***************************************************************************)
(* clean_text                                                              *)
(*                                                                         *)
(* A text is a sequence of characters: "a", "b" and "c" are letters, "7"   *)
(* is a digit, " ", "\t" and "\n" are the whitespace, and "Page" stands    *)
(* for the four letters of that word.                                      *)
(***************************************************************************)
\* The number of lines of an input text.
MaxLines == 3

\* \s
IsSpace(c) == c \in { " ", "\t", "\n" }

\* \d
IsDigit(c) == c = "7"

\* The end of the longest run of characters of a class that starts at i
\* (i - 1 if there is none).
RECURSIVE RunEnd(_, _, _)
RunEnd(str, i, class) ==
    IF i <= Len(str) /\ str[i] \in class THEN RunEnd(str, i + 1, class) ELSE i - 1

Spaces == { " ", "\t", "\n" }

\* re.sub(r'\s+', ' ', text), from position i on.
RECURSIVE CollapseFrom(_, _)
CollapseFrom(str, i) ==
    IF i > Len(str) THEN << >>
    ELSE IF IsSpace(str[i])
      THEN << " " >> \o CollapseFrom(str, RunEnd(str, i, Spaces) + 1)
    ELSE << str[i] >> \o CollapseFrom(str, i + 1)

Collapse(str) == CollapseFrom(str, 1)

\* The last newline among the positions from..to, 0 if there is none.
LastNewline(str, from, to) ==
    LET at == { k \in from .. to : str[k] = "\n" }
    IN  IF at = {} THEN 0 ELSE CHOOSE k \in at : \A m \in at : m <= k

\* The first newline at or after a position, 0 if there is none.
FirstNewline(str, from) ==
    LET at == { k \in from .. Len(str) : str[k] = "\n" }
    IN  IF at = {} THEN 0 ELSE CHOOSE k \in at : \A m \in at : k <= m

\* The end of the match of r'\n\s*\d+\s*\n' that starts at i, 0 if none.
NumberLineEnd(str, i) ==
    IF str[i] # "\n" THEN 0
    ELSE LET d == RunEnd(str, i + 1, Spaces) + 1
             e == RunEnd(str, d, { "7" })
         IN  IF e < d THEN 0
             ELSE LastNewline(str, e + 1, RunEnd(str, e + 1, Spaces))

\* The end of the match of r'\n\s*Page \d+.*?\n' that starts at i, 0 if none.
PageLineEnd(str, i) ==
    IF str[i] # "\n" THEN 0
    ELSE LET p == RunEnd(str, i + 1, Spaces) + 1
         IN  IF /\ p + 2 <= Len(str)
                /\ str[p] = "Page" /\ str[p + 1] = " " /\ IsDigit(str[p + 2])
               THEN FirstNewline(str, p + 3)
               ELSE 0

\* re.sub(r'\n\s*\d+\s*\n', '\n', text), from position i on.
RECURSIVE DropNumberLines(_, _)
DropNumberLines(str, i) ==
    IF i > Len(str) THEN << >>
    ELSE IF NumberLineEnd(str, i) # 0
      THEN << "\n" >> \o DropNumberLines(str, NumberLineEnd(str, i) + 1)
    ELSE << str[i] >> \o DropNumberLines(str, i + 1)

\* re.sub(r'\n\s*Page \d+.*?\n', '\n', text), from position i on.
RECURSIVE DropPageLines(_, _)
DropPageLines(str, i) ==
    IF i > Len(str) THEN << >>
    ELSE IF PageLineEnd(str, i) # 0
      THEN << "\n" >> \o DropPageLines(str, PageLineEnd(str, i) + 1)
    ELSE << str[i] >> \o DropPageLines(str, i + 1)

\* re.sub(r'\n{3,}', '\n\n', text), from position i on.
RECURSIVE SqueezeNewlines(_, _)
SqueezeNewlines(str, i) ==
    IF i > Len(str) THEN << >>
    ELSE IF RunEnd(str, i, { "\n" }) >= i + 2
      THEN << "\n", "\n" >> \o SqueezeNewlines(str, RunEnd(str, i, { "\n" }) + 1)
    ELSE << str[i] >> \o SqueezeNewlines(str, i + 1)

\* str.lstrip
RECURSIVE StripLeading(_)
StripLeading(str) ==
    IF str # << >> /\ IsSpace(Head(str)) THEN StripLeading(Tail(str)) ELSE str

\* Mutant: the text is returned as it is.
StripOmitted(str) == str

\* str.strip
RECURSIVE Strip(_)
Strip(str) ==
    IF str # << >> /\ IsSpace(str[Len(str)])
      THEN Strip(SubSeq(str, 1, Len(str) - 1))
      ELSE StripLeading(str)

\* clean_text, text_extractor.py lines 71-86.
clean_text(str) ==
    IF str = << >> THEN << >>
    ELSE Strip(SqueezeNewlines(
                 DropPageLines(
                   DropNumberLines(Collapse(str), 1), 1), 1))

\* The lines an input text is made of.
Lines ==
    { << "a" >>,
      << "7" >>,
      << "Page", " ", "7", " ", "b" >>,
      << " ", "c", "\t", " ", "c", " " >>,
      << >> }

\* "\n".join(lines)
RECURSIVE Join(_)
Join(lines) ==
    IF lines = << >> THEN << >>
    ELSE IF Len(lines) = 1 THEN Head(lines)
    ELSE Head(lines) \o << "\n" >> \o Join(Tail(lines))

InitClean ==
    /\ NoScript
    /\ \E l \in UNION { [ 1 .. n -> Lines ] : n \in 0 .. MaxLines } :
           call = [ fn |-> "clean_text", lines |-> l, text |-> Join(l),
                    calls |-> 0, result |-> << >>, again |-> << >> ]

\* cleaned_text = clean_text(text), text_extractor.py line 155.
CleanText ==
    /\ call.fn = "clean_text"
    /\ call.calls = 0
    /\ call' = [ call EXCEPT !.calls = 1, !.result = clean_text(call.text) ]
    /\ UNCHANGED scriptVars

\* clean_text applied to its own result.
CleanAgain ==
    /\ call.fn = "clean_text"
    /\ call.calls = 1
    /\ call' = [ call EXCEPT !.calls = 2, !.again = clean_text(call.result) ]
    /\ UNCHANGED scriptVars

SpecClean == InitClean /\ [][CleanText \/ CleanAgain]_vars


(***************************************************************************)
(* Vocabulary of the properties                                            *)
(***************************************************************************)
Done == pc = "done"

Analyzers == {"topic_analyzer", "openai_analyzer"}

\* An existing, non-empty input of a type the script supports.
ValidInput ==
    /\ inExists
    /\ inBody = "content"
    /\ CASE script = "text_extractor" -> inExt \in {".pdf", ".docx", ".txt"}
         [] script = "style_transfer" -> inExt = ".jpg"
         [] OTHER                     -> inExt = ".txt"

\* A missing input, one of an unsupported type, or one without text.
InvalidInput ==
    \/ ~inExists
    \/ inBody = "blank"
    \/ CASE script = "text_extractor" -> inExt \notin {".pdf", ".docx", ".txt"}
         [] script = "style_transfer" -> inExt # ".jpg"
         [] OTHER                     -> inExt # ".txt"

\* Nothing outside the script went wrong: no injected failure, and the
\* library was importable, at once or after the install.
EnvOk == ~fault /\ (installAttempts = 0 \/ installWorks)

\* The files that make up the script's output artifact.
Artifact ==
    CASE script = "text_extractor" ->
            { << "text", outPath >>, << "metadata", MetadataPath(outPath) >> }
      [] script = "style_transfer" -> { << "jpeg", outPath >> }
      [] OTHER -> { << "analysis", outPath >> }

DocumentedKeys == {"summary", "extractedTopics", "suggestedTopics", "suggestedAreas"}

(***************************************************************************)
(* C1                                                                      *)
(***************************************************************************)
\* C1: whenever an analyzer reports success, the object at the output path
\* has the keys summary, extractedTopics, suggestedTopics and suggestedAreas.
\* (Violated: the object analyze_paper writes has no suggestedAreas.)
C1_SuccessHasDocumentedKeys ==
    (script \in Analyzers /\ exitCode = 0) =>
        DocumentedKeys \subseteq files[outPath].keys

(***************************************************************************)
(* C2                                                                      *)
(***************************************************************************)
\* The local analyzer was called once, with the arguments of
\* analyze_paper_openai, and its return value was returned.
FellBack ==
    /\ fallbacks = 1
    /\ apArgs = << "text_path", outPath, topicsArg >>
    /\ result = apRet

\* C2 as stated: every failure of the LLM path, at any step, ends in the
\* local analyzer being called with the same arguments and its result
\* returned.  (Violated: a failure inside suggest_topics_openai is caught
\* there and the run goes on without the local analyzer.)
C2_EveryLlmFailureFallsBack ==
    (script = "openai_analyzer" /\ Done /\ llmFailures # {}) => FellBack

\* C2 amended: a missing client, a falsy analyze_with_openai result, or an
\* exception reaching the handler of analyze_paper_openai ends in the local
\* analyzer being called with the same arguments and its result returned; a
\* failure inside suggest_topics_openai alone does not: the run goes on and,
\* when it succeeds, writes an empty suggestion list.
C2_OuterFailureFallsBack ==
    (script = "openai_analyzer" /\ Done) =>
        /\ (llmFailures \cap {"noclient", "noresult", "exception"} # {}) => FellBack
        /\ (llmFailures = {"suggest"}) =>
              /\ fallbacks = 0
              /\ result = "True" => files[outPath].sugg = "empty"

C2_Witness ==
    /\ script = "openai_analyzer" /\ Done
    /\ "exception" \in llmFailures
    /\ topicsArg = "usable"
    /\ FellBack /\ result = "True"

(***************************************************************************)
(* C3                                                                      *)
(***************************************************************************)
\* C3: exit code 0 only after every file of the output artifact was
\* completely written at its path in this invocation; a run that ends
\* without that exits with 1.
C3_ExitZeroOnlyAfterWrite ==
    /\ exitCode = 0 => Artifact \subseteq wrote
    /\ (Done /\ ~(Artifact \subseteq wrote)) => exitCode = 1

C3_Witness ==
    /\ Done /\ exitCode = 0
    /\ script = "openai_analyzer" /\ fallbacks = 1
    /\ Artifact \subseteq wrote

(***************************************************************************)
(* C4                                                                      *)
(***************************************************************************)
\* C4: a valid input and any output path, with or without a directory
\* component, give the output at that path and exit code 0.  (Violated:
\* os.makedirs(os.path.dirname(output_path)) raises for a bare file name.)
C4_ValidInputSucceeds ==
    (Done /\ ArgcOk(script, nargs) /\ ValidInput /\ EnvOk) =>
        /\ exitCode = 0
        /\ Artifact \subseteq wrote

(***************************************************************************)
(* C5                                                                      *)
(***************************************************************************)
\* C5: with a missing, unsupported or blank input the script prints a
\* diagnostic, exits with 1 and leaves every file as it was.
C5_InvalidInputLeavesOutput ==
    (Done /\ ArgcOk(script, nargs) /\ InvalidInput) =>
        /\ diag
        /\ exitCode = 1
        /\ files = files0
        /\ opens = 0

C5_Witness ==
    /\ Done /\ ArgcOk(script, nargs) /\ InvalidInput
    /\ inExists /\ inBody = "content"
    /\ files0[outPath] = OldFile
    /\ exitCode = 1

(***************************************************************************)
(* C6                                                                      *)
(***************************************************************************)
\* C6: when process_document succeeds the file at output_path holds the
\* cleaned text and the metadata is in another file.  (Violated: for an
\* output_path without '.txt' the metadata path is output_path itself.)
C6_SidecarIsAnotherFile ==
    (script = "text_extractor" /\ result = "True") =>
        /\ files[outPath].kind = "text"
        /\ \E p \in AllPaths : p # outPath /\ files[p] = extract_metadata

(***************************************************************************)
(* C7                                                                      *)
(***************************************************************************)
\* C7: no exception leaves a main function; a failure ends in the local
\* fallback or in exit code 1.
C7_NoExceptionEscapes ==
    /\ ~escaped
    /\ pc # "escape"
    /\ (Done /\ failCause # "none") => (exitCode = 1 \/ fallbacks >= 1)

C7_Witness ==
    /\ Done /\ fault /\ failCause = "write"
    /\ ~escaped /\ exitCode = 1

NoUsableTopics == topicsArg \in {"omitted", "missing", "badjson", "unusable"}

\* C9: without usable predefined topics an analyzer never fails at the topic
\* stage, every analysis it writes has suggestedTopics = [], and the run
\* succeeds when nothing else fails.
C9_TopicStageOptional ==
    (script \in Analyzers /\ ArgcOk(script, nargs) /\ Done /\ NoUsableTopics) =>
        /\ failCause # "topics"
        /\ files[outPath].kind = "analysis" => files[outPath].sugg = "empty"
        /\ exitCode = 0 => files[outPath].sugg = "empty"
        /\ (ValidInput /\ EnvOk /\ Dirname(outPath) # << >>) => exitCode = 0

C9_Witness ==
    /\ script = "topic_analyzer" /\ Done
    /\ topicsArg = "unusable" /\ extracted_topics = "some"
    /\ exitCode = 0 /\ files[outPath].sugg = "empty"

(***************************************************************************)
(* C10                                                                     *)
(***************************************************************************)
\* C10: no transformation stage runs once the output has been opened for
\* writing, and the output is opened for writing at most once.  (Violated:
\* analyze_paper_openai falls back to the local analyzer when the report
\* after its write raises; process_document writes output_path twice when
\* the metadata path equals it.)
C10_ReadTransformWriteOnce ==
    /\ ~lateXform
    /\ opens <= 1

(***************************************************************************)
(* C11                                                                     *)
(***************************************************************************)
\* C11 as stated: style_transfer.py given only an existing input image and
\* an output path processes it and exits with 0.  (Violated: __main__
\* demands exactly three arguments, as its usage message says.)
C11_StyleArgumentOptional ==
    (script = "style_transfer" /\ Done /\ nargs = 2 /\ ValidInput) =>
        /\ exitCode = 0
        /\ failCause # "usage"

\* C11 amended: the style argument is required; style_transfer.py given only
\* an input image and an output path prints the usage message, exits with 1
\* and processes nothing.
C11_StyleArgumentRequired ==
    (script = "style_transfer" /\ Done /\ nargs = 2) =>
        /\ diag
        /\ exitCode = 1
        /\ failCause = "usage"
        /\ applied = "none"
        /\ files = files0

C11_Witness ==
    /\ script = "style_transfer" /\ Done /\ nargs = 2 /\ ValidInput
    /\ exitCode = 1

(***************************************************************************)
(* C12                                                                     *)
(***************************************************************************)
\* The filter each style argument of the model must get.
ExpectedFilter ==
    CASE style = "vangogh" -> "vangogh"
      [] style = "MONET"   -> "monet"
      [] OTHER             -> "vangogh"

\* C12: the filter is chosen by the lower-cased style name, an unknown name
\* gets the Van Gogh filter, and a run that fails never fails because of the
\* style: with a decodable image, a creatable output directory and no
\* outside failure it writes the JPEG and exits with 0 whatever the style.
C12_StyleSelection ==
    script = "style_transfer" =>
        /\ applied # "none" => applied = ExpectedFilter
        /\ (Done /\ nargs = 3 /\ ValidInput /\ EnvOk /\ Dirname(outPath) # << >>) =>
              /\ applied = ExpectedFilter
              /\ exitCode = 0
              /\ << "jpeg", outPath >> \in wrote

C12_Witness ==
    /\ script = "style_transfer" /\ Done
    /\ style = "sketch" /\ applied = "vangogh"
    /\ exitCode = 0 /\ files[outPath].kind = "jpeg"

C12_WitnessCase ==
    /\ script = "style_transfer" /\ Done
    /\ style = "MONET" /\ applied = "monet" /\ exitCode = 0

(***************************************************************************)
(* C13                                                                     *)
(***************************************************************************)
\* C13: after the size limit the larger side is at most 1024, both sides
\* are at least 1, and an image whose larger side is at most 1024 keeps its
\* size.  (Violated: int() truncates the smaller side of a very elongated
\* image to 0.)
C13_SizeLimit ==
    (call.fn = "resize" /\ call.done) =>
        /\ Max(call.new_size[1], call.new_size[2]) <= 1024
        /\ call.new_size[1] >= 1 /\ call.new_size[2] >= 1
        /\ Max(call.size[1], call.size[2]) <= 1024 => call.new_size = call.size

\* C14: suggest_topics returns at most 5 suggestions, of pairwise distinct
\* topicId, in order of non-increasing score, each with a score above 0.3
\* and at most 1.0, each for an entry of the predefined list; with no
\* predefined topics it returns the empty list.
C14_SuggestTopicsResult ==
    (call.fn = "suggest_topics" /\ call.done) =>
        LET r == call.result
            predefined == call.predefined_topics
        IN  /\ Len(r) <= 5
            /\ \A i, j \in DOMAIN r : i # j => r[i].topicId # r[j].topicId
            /\ \A i \in DOMAIN r :
                   i < Len(r) => r[i].suggestionScore >= r[i + 1].suggestionScore
            /\ \A i \in DOMAIN r :
                   /\ r[i].suggestionScore > 3
                   /\ r[i].suggestionScore <= 10
                   /\ \E k \in DOMAIN predefined :
                          /\ r[i].topicName = predefined[k].name
                          /\ r[i].topicId = (IF predefined[k].has_id
                                               THEN predefined[k].id
                                               ELSE predefined[k].name)
            /\ predefined = << >> => r = << >>

\* Six predefined topics of six topicIds all match, five are returned and
\* their scores differ.
C14_Witness ==
    /\ call.fn = "suggest_topics" /\ call.done
    /\ Len(call.extracted_topics) = 1
    /\ Len(call.predefined_topics) = 6
    /\ \A i, j \in 1 .. 6 :
           i # j => TopicId(call.predefined_topics[i]) # TopicId(call.predefined_topics[j])
    /\ \A i \in 1 .. 6 :
           Score(call.extracted_topics[1], call.predefined_topics[i]) > 3
    /\ Len(call.result) = 5
    /\ call.result[1].suggestionScore > call.result[5].suggestionScore

\* The extracted topics, by position, that match a predefined topic of
\* topicId t above the threshold.
MatchingExtracted(t) ==
    { i \in DOMAIN call.extracted_topics :
        \E k \in DOMAIN call.predefined_topics :
            /\ TopicId(call.predefined_topics[k]) = t
            /\ Score(call.extracted_topics[i], call.predefined_topics[k]) > 3 }

FirstMatching(t) ==
    CHOOSE i \in MatchingExtracted(t) : \A j \in MatchingExtracted(t) : i <= j

\* The first predefined topic of topicId t that the extracted topic i matches.
FirstTopic(t, i) ==
    CHOOSE k \in DOMAIN call.predefined_topics :
        /\ TopicId(call.predefined_topics[k]) = t
        /\ Score(call.extracted_topics[i], call.predefined_topics[k]) > 3
        /\ \A m \in DOMAIN call.predefined_topics :
               (/\ TopicId(call.predefined_topics[m]) = t
                /\ Score(call.extracted_topics[i], call.predefined_topics[m]) > 3)
               => k <= m

Capped(score) == IF score < 10 THEN score ELSE 10

\* C15: the suggestion kept for a predefined topic carries the score of the
\* first extracted topic, in input order, that matches it; the scores of
\* later extracted topics are discarded.
C15_FirstMatchKept ==
    (call.fn = "suggest_topics" /\ call.done) =>
        \A n \in DOMAIN call.result :
            LET t == call.result[n].topicId
                i == FirstMatching(t)
                k == FirstTopic(t, i)
            IN  /\ MatchingExtracted(t) # {}
                /\ call.result[n].topicName = call.predefined_topics[k].name
                /\ call.result[n].suggestionScore =
                       Capped(Score(call.extracted_topics[i], call.predefined_topics[k]))

\* A topic is matched by two extracted topics, the second scores higher, the
\* first score is kept and ranks the topic behind another.
C15_Witness ==
    /\ call.fn = "suggest_topics" /\ call.done
    /\ \E n \in DOMAIN call.result :
           LET t == call.result[n].topicId IN
           /\ n > 1
           /\ call.result[n - 1].suggestionScore > call.result[n].suggestionScore
           /\ \E j \in MatchingExtracted(t), k \in DOMAIN call.predefined_topics :
                  /\ j > FirstMatching(t)
                  /\ TopicId(call.predefined_topics[k]) = t
                  /\ Capped(Score(call.extracted_topics[j], call.predefined_topics[k]))
                         > call.result[n].suggestionScore

\* What C16 says of every returned suggestion: it names a predefined topic,
\* case ignored, and carries that topic's _id, or its name without _id.
NamesPredefinedTopic(suggestion) ==
    \E k \in DOMAIN call.predefined_topics :
        /\ LowerStr(call.predefined_topics[k].name) = LowerStr(suggestion.topicName)
        /\ suggestion.topicId = (IF call.predefined_topics[k].has_id
                                   THEN call.predefined_topics[k].id
                                   ELSE call.predefined_topics[k].name)

\* A suggestion of the reply names a predefined topic.
Matched(suggestion) ==
    /\ suggestion.has_name
    /\ \E k \in DOMAIN call.predefined_topics :
           LowerStr(call.predefined_topics[k].name) = LowerStr(suggestion.topicName)

\* A suggestion of the reply names a predefined topic whose id counts:
\* the first topic of that name has a non-empty topicId.
MatchedUsable(suggestion) ==
    /\ Matched(suggestion)
    /\ LET k == CHOOSE k \in DOMAIN call.predefined_topics :
                    /\ LowerStr(call.predefined_topics[k].name)
                           = LowerStr(suggestion.topicName)
                    /\ \A m \in DOMAIN call.predefined_topics :
                           LowerStr(call.predefined_topics[m].name)
                               = LowerStr(suggestion.topicName) => k <= m
       IN  (IF call.predefined_topics[k].has_id THEN call.predefined_topics[k].id
            ELSE call.predefined_topics[k].name) # << >>

Malformed(suggestion) == ~ suggestion.has_name \/ ~ suggestion.has_score

ReplyRange == { call.reply.suggestions[i] : i \in DOMAIN call.reply.suggestions }

ResultRange == { call.result[i] : i \in DOMAIN call.result }

\* C16: every suggestion returned by suggest_topics_openai names a
\* predefined topic, case ignored, and carries its _id or name; suggestions
\* naming no predefined topic are dropped; when the reply is not JSON or a
\* suggestion is malformed, the empty list is returned and nothing is raised.
C16_MalformedGivesEmpty ==
    (call.fn = "suggest_topics_openai" /\ call.done) =>
        /\ ~ call.raised
        /\ \A x \in ResultRange : NamesPredefinedTopic(x)
        /\ \A x \in ReplyRange :
               (x.has_name /\ ~ Matched(x)) =>
                   \A y \in ResultRange : y.topicName # x.topicName
        /\ (call.reply.kind # "json" \/ \E x \in ReplyRange : Malformed(x))
               => call.result = << >>

\* C16, amended: as above, but the empty list is returned when the reply is
\* not JSON, when a suggestion has no topicName, or when a suggestion that
\* names a predefined topic of non-empty id has no suggestionScore; a
\* suggestion without score that names no predefined topic is dropped as
\* the other unmatched ones are, and the rest is returned.
C16_RaisingReplyGivesEmpty ==
    (call.fn = "suggest_topics_openai" /\ call.done) =>
        /\ ~ call.raised
        /\ \A x \in ResultRange : NamesPredefinedTopic(x)
        /\ \A x \in ReplyRange :
               (x.has_name /\ ~ Matched(x)) =>
                   \A y \in ResultRange : y.topicName # x.topicName
        /\ (\/ call.reply.kind # "json"
            \/ \E x \in ReplyRange : ~ x.has_name
            \/ \E x \in ReplyRange : MatchedUsable(x) /\ ~ x.has_score)
               => call.result = << >>
        /\ (/\ call.reply.kind = "json"
            /\ call.predefined_topics # << >>
            /\ \A x \in ReplyRange :
                   x.has_name /\ (MatchedUsable(x) => x.has_score))
               => \A x \in ReplyRange :
                      MatchedUsable(x) =>
                          \E y \in ResultRange :
                              /\ y.topicName = x.topicName
                              /\ y.suggestionScore = x.suggestionScore

\* The reply holds a suggestion in another case than the topic's name and a
\* suggestion without score that names no topic: the first is returned
\* with the topic's _id, the second dropped.
C16_Witness ==
    /\ call.fn = "suggest_topics_openai" /\ call.done
    /\ Len(call.reply.suggestions) = 2
    /\ \E x \in ReplyRange : x.has_name /\ ~ x.has_score /\ ~ Matched(x)
    /\ Len(call.result) = 1
    /\ \E k \in DOMAIN call.predefined_topics :
           /\ call.predefined_topics[k].has_id
           /\ call.predefined_topics[k].id = call.result[1].topicId
           /\ call.predefined_topics[k].name # call.result[1].topicName

\* The words of a text: its maximal runs of non-whitespace characters.
RECURSIVE WordsFrom(_, _, _)
WordsFrom(str, i, word) ==
    IF i > Len(str)
      THEN IF word = << >> THEN << >> ELSE << word >>
    ELSE IF str[i] \in { " ", "\t", "\n" }
      THEN (IF word = << >> THEN << >> ELSE << word >>) \o WordsFrom(str, i + 1, << >>)
    ELSE WordsFrom(str, i + 1, Append(word, str[i]))

\* A line that consists only of a number, or has the form 'Page N ...'.
PageNumberLine(line) ==
    \/ line # << >> /\ \A i \in DOMAIN line : line[i] = "7"
    \/ Len(line) >= 3 /\ line[1] = "Page" /\ line[2] = " " /\ line[3] = "7"

\* The words of the lines that are no page-number lines, in order.
RECURSIVE KeptWords(_)
KeptWords(lines) ==
    IF lines = << >> THEN << >>
    ELSE (IF PageNumberLine(Head(lines)) THEN << >>
          ELSE WordsFrom(Head(lines), 1, << >>))
         \o KeptWords(Tail(lines))

\* C17: clean_text removes page numbers and headers: when a line between
\* two other lines consists only of a number or has the form 'Page N ...',
\* its content is not in the cleaned text, and the content of the other
\* lines is.
C17_PageLinesRemoved ==
    (/\ call.fn = "clean_text" /\ call.calls >= 1
     /\ Len(call.lines) = 3
     /\ ~ PageNumberLine(call.lines[1])
     /\ PageNumberLine(call.lines[2])
     /\ ~ PageNumberLine(call.lines[3]))
        => WordsFrom(call.result, 1, << >>) = KeptWords(call.lines)

\* C18: the result of clean_text has no newline and no tab, no two
\* whitespace characters in a row and no whitespace at either end, and
\* clean_text applied to it returns it unchanged.
C18_CleanShapeAndIdempotent ==
    call.fn = "clean_text" =>
        /\ call.calls >= 1 =>
               LET r == call.result IN
               /\ \A i \in DOMAIN r : r[i] \notin { "\n", "\t" }
               /\ \A i \in DOMAIN r :
                      i < Len(r) => ~ (r[i] \in { " ", "\t", "\n" }
                                       /\ r[i + 1] \in { " ", "\t", "\n" })
               /\ r # << >> => /\ r[1] \notin { " ", "\t", "\n" }
                              /\ r[Len(r)] \notin { " ", "\t", "\n" }
        /\ call.calls = 2 => call.again = call.result

\* A text with a tab, two spaces in a row, newlines in a row and whitespace
\* at both ends was cleaned twice, and the cleaning changed it.
C18_Witness ==
    /\ call.fn = "clean_text" /\ call.calls = 2
    /\ \E i \in DOMAIN call.text : call.text[i] = "\t"
    /\ \E i \in DOMAIN call.text :
           i < Len(call.text) /\ call.text[i] = "\n" /\ call.text[i + 1] = "\n"
    /\ call.text[1] = " " /\ call.text[Len(call.text)] = " "
    /\ call.result # << >> /\ call.result # call.text

====
